---- MODULE Spec2Model ----
(***************************************************************************)
(* Model of tracker.py: the shared TrackerState (roster, dead flags, turn   *)
(* cursor, subscriber list) and the TurnTracker views that observe it.      *)
(* Python lists are sequences; a 0-based Python index k reads element k+1.  *)
(* Every method is an operator from an engine-state record to the record    *)
(* after the call, so that toggle_dead calls advance_turn and notify_all    *)
(* exactly as the code does; an action applies one call atomically (the     *)
(* program is single-threaded, a handler runs to completion).               *)
(***************************************************************************)
EXTENDS Integers, Sequences, FiniteSets, TLC

\* ---- bounds of the model ----
MaxN == 3        \* longest roster entered
MaxInit == 2     \* initiatives are drawn from 1..MaxInit
MaxSubs == 2     \* longest subscriber list explored

\* run_app builds two TurnTracker windows on the one state
NumViews == 2

\* tracker.py:11
TEST_CHARACTERS == <<"Boblin", "Meat", "Branch", "Huff", "Timmy", "BBEG", "Monster 1", "Monster 2">>

VARIABLES characters, dead_flags, turn_index, subscribers, views,
          lastCall, refreshLog, notifyCount, provided

vars == <<characters, dead_flags, turn_index, subscribers, views,
          lastCall, refreshLog, notifyCount, provided>>

ViewIds == 1..NumViews
Deltas == {1, -1}
\* indices handed to toggle_dead: every index of the longest roster, and
\* out-of-range ones on both sides
IndexInputs == (0 - (MaxN + 1))..MaxN

\* ---- Python primitives ----
\* variant: remainder with the sign of the dividend, as C's % gives
PyMod_truncating(a, n) == IF a >= 0 THEN a % n ELSE 0 - ((0 - a) % n)

\* a % n for n > 0: the result has the sign of n (never negative here)
PyMod(a, n) == ((a % n) + n) % n
\* list[index]: negative indices count from the end; outside -n..n-1 raises
PyInRange(list, index) == index >= 0 - Len(list) /\ index < Len(list)
PyPos(list, index) == IF index < 0 THEN index + Len(list) + 1 ELSE index + 1
PyGet(list, index) == list[PyPos(list, index)]

\* ---- get_characters: entries are collected, then list.sort(key=initiative,
\* reverse=True), which is stable ----
\* variant: an entry goes in front of the entries of equal initiative
RECURSIVE CountAbove(_, _)
CountAbove(s, init) ==
    IF s = <<>> THEN 0
    ELSE (IF Head(s)[2] > init THEN 1 ELSE 0) + CountAbove(Tail(s), init)

RECURSIVE CountAtLeast(_, _)
CountAtLeast(s, init) ==
    IF s = <<>> THEN 0
    ELSE (IF Head(s)[2] >= init THEN 1 ELSE 0) + CountAtLeast(Tail(s), init)

SortInsert(sorted, e) ==
    LET pos == CountAtLeast(sorted, e[2])
    IN SubSeq(sorted, 1, pos) \o <<e>> \o SubSeq(sorted, pos + 1, Len(sorted))

RECURSIVE SortDesc(_)
SortDesc(s) ==
    IF s = <<>> THEN <<>>
    ELSE SortInsert(SortDesc(SubSeq(s, 1, Len(s) - 1)), s[Len(s)])

\* the entered initiatives; the k-th entry gets the k-th test name. Neither
\* the engine nor a view reads an initiative after the sort, so the rosters
\* the engine is exercised on are one per length (all initiatives equal);
\* SortInputs below are the rosters the sort is examined on.
Inputs == {[k \in 1..n |-> 1] : n \in 0..MaxN}

get_characters(inits) ==
    SortDesc([k \in 1..Len(inits) |-> <<TEST_CHARACTERS[k], inits[k]>>])

\* the (name, initiative) pairs in the order they were entered
Entered(inits) == [k \in 1..Len(inits) |-> <<TEST_CHARACTERS[k], inits[k]>>]
SortInputs == UNION {[1..n -> 1..MaxInit] : n \in 0..MaxN}

\* ---- the engine state as a record; log/notifies/raised describe one call;
\* failing is the set of observers whose refresh() raises during the call,
\* examined counts the passes through advance_turn's loop body and trace
\* lists the engine methods entered, in order ----
Enter(st, method) == [st EXCEPT !.trace = Append(st.trace, method)]

TrackerState(chars) ==
    [characters |-> chars,
     dead_flags |-> [i \in 1..Len(chars) |-> FALSE],
     turn_index |-> 0,
     subscribers |-> <<>>,
     views |-> [v \in ViewIds |-> [rendered |-> FALSE, cards |-> <<>>]],
     log |-> <<>>,
     notifies |-> 0,
     failing |-> {},
     examined |-> 0,
     trace |-> <<>>,
     raised |-> "none"]

Engine ==
    [characters |-> characters,
     dead_flags |-> dead_flags,
     turn_index |-> turn_index,
     subscribers |-> subscribers,
     views |-> views,
     log |-> <<>>,
     notifies |-> 0,
     failing |-> {},
     examined |-> 0,
     trace |-> <<>>,
     raised |-> "none"]

\* ---- AnimatedCard.refresh(is_current, is_dead): what the card shows ----
AnimatedCard(name, index, is_current, is_dead) ==
    [name |-> name,
     index |-> index,
     dead_style |-> is_dead,
     turn_label |-> IF is_dead THEN FALSE ELSE is_current]

\* ---- TurnTracker.refresh: rebuild every card from the engine state ----
\* variant: the position in the list, counted from one, is compared with the
\* cursor
RenderCardsFromOne(st) ==
    [k \in 1..Len(st.characters) |->
        LET i == k - 1
            is_current == (k = st.turn_index /\ ~st.dead_flags[k])
        IN AnimatedCard(st.characters[k][1], i, is_current, st.dead_flags[k])]

RenderCards(st) ==
    [k \in 1..Len(st.characters) |->
        LET i == k - 1
            is_current == (i = st.turn_index /\ ~st.dead_flags[k])
        IN AnimatedCard(st.characters[k][1], i, is_current, st.dead_flags[k])]

\* variant: the cards of the previous refresh are not cleared
refresh_keeps_cards(st, v) ==
    [st EXCEPT !.views[v] = [rendered |-> TRUE,
                             cards |-> st.views[v].cards \o RenderCards(st)],
               !.log = Append(st.log, [view |-> v,
                                       turn_index |-> st.turn_index,
                                       dead_flags |-> st.dead_flags])]

\* an observer whose refresh() raises shows nothing new
refresh(st, v) ==
    IF v \in st.failing
    THEN [st EXCEPT !.raised = "RefreshError"]
    ELSE [st EXCEPT !.views[v] = [rendered |-> TRUE, cards |-> RenderCards(st)],
                    !.log = Append(st.log, [view |-> v,
                                            turn_index |-> st.turn_index,
                                            dead_flags |-> st.dead_flags])]

\* ---- TrackerState.subscribe ----
\* variant: a view already in the list is not added again
subscribe_once(st, v) ==
    IF \E k \in 1..Len(st.subscribers) : st.subscribers[k] = v
    THEN st
    ELSE [st EXCEPT !.subscribers = Append(st.subscribers, v)]

subscribe(st, v) == [st EXCEPT !.subscribers = Append(st.subscribers, v)]

\* ---- TrackerState.notify_all: refresh each subscriber in list order ----
\* variant: an exception of one refresh() is caught and the loop goes on
RECURSIVE NotifyFromIsolating(_, _)
NotifyFromIsolating(st, k) ==
    IF k > Len(st.subscribers) THEN st
    ELSE NotifyFromIsolating(
             [refresh(st, st.subscribers[k]) EXCEPT !.raised = "none"], k + 1)

\* the for loop; nothing catches an exception of refresh(), which ends it
RECURSIVE NotifyFrom(_, _)
NotifyFrom(st, k) ==
    IF k > Len(st.subscribers) THEN st
    ELSE LET st1 == refresh(st, st.subscribers[k])
         IN IF st1.raised # "none" THEN st1 ELSE NotifyFrom(st1, k + 1)

\* variant: refreshes the subscribers last to first
RECURSIVE NotifyDownFrom(_, _)
NotifyDownFrom(st, k) ==
    IF k < 1 THEN st
    ELSE NotifyDownFrom(refresh(st, st.subscribers[k]), k - 1)

notify_all_reversed(st) ==
    NotifyDownFrom([Enter(st, "notify_all") EXCEPT !.notifies = st.notifies + 1],
                   Len(st.subscribers))

notify_all_isolating(st) ==
    NotifyFromIsolating(
        [Enter(st, "notify_all") EXCEPT !.notifies = st.notifies + 1], 1)

notify_all(st) ==
    NotifyFrom([Enter(st, "notify_all") EXCEPT !.notifies = st.notifies + 1], 1)

\* ---- TrackerState.advance_turn ----
\* the loop body for i, i+1, ..., n; `% n` raises when n = 0 and the list
\* read raises outside the list
\* variant: no return after the notification of a found character
RECURSIVE AdvanceScanOn(_, _, _, _, _)
AdvanceScanOn(st, delta, original_index, i, n) ==
    IF i > n
    THEN notify_all([st EXCEPT !.turn_index = original_index])
    ELSE LET st1 == [st EXCEPT !.examined = st.examined + 1]
             next_index == PyMod(st.turn_index + delta * i, n)
         IN IF ~PyGet(st.dead_flags, next_index)
            THEN AdvanceScanOn(notify_all([st1 EXCEPT !.turn_index = next_index]),
                               delta, original_index, i + 1, n)
            ELSE AdvanceScanOn(st1, delta, original_index, i + 1, n)

RECURSIVE AdvanceScan(_, _, _, _, _)
AdvanceScan(st, delta, original_index, i, n) ==
    IF i > n
    THEN notify_all([st EXCEPT !.turn_index = original_index])
    ELSE LET st1 == [st EXCEPT !.examined = st.examined + 1]
         IN IF n = 0
            THEN [st1 EXCEPT !.raised = "ZeroDivisionError"]
            ELSE LET next_index == PyMod(st.turn_index + delta * i, n)
                 IN IF ~PyInRange(st.dead_flags, next_index)
                    THEN [st1 EXCEPT !.raised = "IndexError"]
                    ELSE IF ~PyGet(st.dead_flags, next_index)
                    THEN notify_all([st1 EXCEPT !.turn_index = next_index])
                    ELSE AdvanceScan(st1, delta, original_index, i + 1, n)

\* variant: steps to the neighbour without looking at its dead flag
advance_turn_no_skip(st, delta) ==
    LET n == Len(st.characters)
        st0 == Enter(st, "advance_turn")
    IN IF n = 0 THEN notify_all(st0)
       ELSE notify_all([st0 EXCEPT !.turn_index = PyMod(st.turn_index + delta, n)])

\* variant: the scan starts at i = 0, range(n + 1) for range(1, n + 1)
advance_turn_from_zero(st, delta) ==
    AdvanceScan(Enter(st, "advance_turn"), delta, st.turn_index, 0,
                Len(st.characters))

\* variant: the scan starts from the head of the roster, not from the cursor
advance_turn_from_head(st, delta) ==
    AdvanceScan([Enter(st, "advance_turn") EXCEPT !.turn_index = 0], delta,
                st.turn_index, 1, Len(st.characters))

\* variant: the direction is not read, every call scans forward
advance_turn_forward(st, delta) ==
    AdvanceScan(Enter(st, "advance_turn"), 1, st.turn_index, 1,
                Len(st.characters))

advance_turn(st, delta) ==
    AdvanceScan(Enter(st, "advance_turn"), delta, st.turn_index, 1,
                Len(st.characters))

\* ---- TrackerState.toggle_dead ----
\* variant: notifies after the flip and again through advance_turn
toggle_dead_double_notify(st, index) ==
    IF ~PyInRange(st.dead_flags, index)
    THEN [Enter(st, "toggle_dead") EXCEPT !.raised = "IndexError"]
    ELSE LET p == PyPos(st.dead_flags, index)
             st1 == [Enter(st, "toggle_dead") EXCEPT
                        !.dead_flags[p] = ~st.dead_flags[p]]
         IN IF index = st1.turn_index /\ st1.dead_flags[p]
            THEN advance_turn(notify_all(st1), 1)
            ELSE notify_all(st1)

\* variant: killing the current character only notifies
toggle_dead_no_advance(st, index) ==
    IF ~PyInRange(st.dead_flags, index)
    THEN [Enter(st, "toggle_dead") EXCEPT !.raised = "IndexError"]
    ELSE LET p == PyPos(st.dead_flags, index)
             st1 == [Enter(st, "toggle_dead") EXCEPT
                        !.dead_flags[p] = ~st.dead_flags[p]]
         IN notify_all(st1)

\* variant: the views are notified before the flag is flipped
toggle_dead_notify_first(st, index) ==
    IF ~PyInRange(st.dead_flags, index)
    THEN [Enter(st, "toggle_dead") EXCEPT !.raised = "IndexError"]
    ELSE LET p == PyPos(st.dead_flags, index)
             st0 == notify_all(Enter(st, "toggle_dead"))
             st1 == [st0 EXCEPT !.dead_flags[p] = ~st.dead_flags[p]]
         IN IF index = st1.turn_index /\ st1.dead_flags[p]
            THEN advance_turn([st1 EXCEPT !.notifies = 0, !.log = <<>>], 1)
            ELSE st1

\* variant: advances whenever the toggled index is the cursor
toggle_dead_always_advance(st, index) ==
    IF ~PyInRange(st.dead_flags, index)
    THEN [Enter(st, "toggle_dead") EXCEPT !.raised = "IndexError"]
    ELSE LET p == PyPos(st.dead_flags, index)
             st1 == [Enter(st, "toggle_dead") EXCEPT
                        !.dead_flags[p] = ~st.dead_flags[p]]
         IN IF index = st1.turn_index
            THEN advance_turn(st1, 1)
            ELSE notify_all(st1)

\* variant: marks dead instead of flipping
toggle_dead_mark_only(st, index) ==
    IF ~PyInRange(st.dead_flags, index)
    THEN [Enter(st, "toggle_dead") EXCEPT !.raised = "IndexError"]
    ELSE LET p == PyPos(st.dead_flags, index)
             st1 == [Enter(st, "toggle_dead") EXCEPT !.dead_flags[p] = TRUE]
         IN IF index = st1.turn_index /\ st1.dead_flags[p]
            THEN advance_turn(st1, 1)
            ELSE notify_all(st1)

toggle_dead(st, index) ==
    IF ~PyInRange(st.dead_flags, index)
    THEN [Enter(st, "toggle_dead") EXCEPT !.raised = "IndexError"]
    ELSE LET p == PyPos(st.dead_flags, index)
             st1 == [Enter(st, "toggle_dead") EXCEPT
                        !.dead_flags[p] = ~st.dead_flags[p]]
         IN IF index = st1.turn_index /\ st1.dead_flags[p]
            THEN advance_turn(st1, 1)
            ELSE notify_all(st1)

\* ---- TurnTracker.__init__: subscribe, build the widgets, first refresh ----
TurnTracker(st, v) == refresh(subscribe(st, v), v)

\* ---- the state machine ----
\* a raised exception unwinds the call; assignments made before it stay.
\* lastCall, refreshLog and notifyCount record the call just made: its name,
\* argument, exception and the cursor it started from (and, for a direct
\* refresh(), whether it repeats the call before it), the observers that
\* failed, the loop passes and the methods entered, and whether it reverses
\* the advance_turn before it (origin: the cursor before that one, else the
\* cursor before this call); the refresh() calls it
\* caused, in order, each with the state the view read; the notify_all runs.
\* the call is advance_turn in the direction opposite to that of the call
\* completed right before it
Reverts(op, arg) ==
    /\ op = "advance_turn"
    /\ lastCall.op = "advance_turn" /\ lastCall.raised = "none"
    /\ lastCall.arg = 0 - arg

Apply(st, op, arg) ==
    /\ characters' = st.characters
    /\ dead_flags' = st.dead_flags
    /\ turn_index' = st.turn_index
    /\ subscribers' = st.subscribers
    /\ views' = st.views
    /\ refreshLog' = st.log
    /\ notifyCount' = st.notifies
    /\ lastCall' = [op |-> op, arg |-> arg, raised |-> st.raised,
                    from |-> turn_index,
                    again |-> (op = "refresh" /\ lastCall.op = op
                                              /\ lastCall.arg = arg),
                    failing |-> st.failing,
                    examined |-> st.examined,
                    trace |-> st.trace,
                    reverts |-> Reverts(op, arg),
                    origin |-> IF Reverts(op, arg) THEN lastCall.from
                               ELSE turn_index]
    /\ provided' = provided

Init ==
    \E inits \in Inputs :
        LET st == TrackerState(get_characters(inits))
        IN /\ characters = st.characters
           /\ dead_flags = st.dead_flags
           /\ turn_index = st.turn_index
           /\ subscribers = st.subscribers
           /\ views = st.views
           /\ refreshLog = st.log
           /\ notifyCount = st.notifies
           /\ lastCall = [op |-> "__init__", arg |-> 0, raised |-> "none",
                          from |-> 0, again |-> FALSE,
                          failing |-> {}, examined |-> 0, trace |-> <<>>,
                          reverts |-> FALSE, origin |-> 0]
           /\ provided = [by |-> "get_characters", entries |-> Entered(inits)]

\* run_app: tracker = TurnTracker(state), for a view not built yet
NewTurnTracker(v) ==
    /\ Len(subscribers) < MaxSubs
    /\ ~views[v].rendered
    /\ \A k \in 1..Len(subscribers) : subscribers[k] # v
    /\ Apply(TurnTracker(Engine, v), "TurnTracker", v)

\* state.subscribe(view) called directly, for any view handle
Subscribe(v) ==
    /\ Len(subscribers) < MaxSubs
    /\ Apply(subscribe(Engine, v), "subscribe", v)

\* prev_btn / next_btn
AdvanceTurn(delta) ==
    /\ delta \in Deltas
    /\ Apply(advance_turn(Engine, delta), "advance_turn", delta)

\* skull_btn of a card, or any caller of toggle_dead
ToggleDead(index) ==
    /\ index \in IndexInputs
    /\ Apply(toggle_dead(Engine, index), "toggle_dead", index)

Next ==
    \/ \E v \in ViewIds : NewTurnTracker(v)
    \/ \E v \in ViewIds : Subscribe(v)
    \/ \E delta \in Deltas : AdvanceTurn(delta)
    \/ \E index \in IndexInputs : ToggleDead(index)

Spec == Init /\ [][Next]_vars

\* the same program driven only through its cards: a card passes its own
\* roster index to toggle_dead
NextValid ==
    \/ \E v \in ViewIds : NewTurnTracker(v)
    \/ \E v \in ViewIds : Subscribe(v)
    \/ \E delta \in Deltas : AdvanceTurn(delta)
    \/ \E index \in 0..(Len(characters) - 1) : ToggleDead(index)

SpecValid == Init /\ [][NextValid]_vars

\* view.refresh() called on a window that exists, outside any notification
Refresh(v) ==
    /\ views[v].rendered
    /\ Apply(refresh(Engine, v), "refresh", v)

\* the windows of run_app, their buttons and cards, and direct refreshes
NextView ==
    \/ \E v \in ViewIds : NewTurnTracker(v)
    \/ \E delta \in Deltas : AdvanceTurn(delta)
    \/ \E index \in 0..(Len(characters) - 1) : ToggleDead(index)
    \/ \E v \in ViewIds : Refresh(v)

SpecView == Init /\ [][NextView]_vars

\* a button or card pressed while the refresh() of the observers in F raises
AdvanceTurnFailing(delta, F) ==
    /\ lastCall.raised # "RefreshError"
    /\ Apply(advance_turn([Engine EXCEPT !.failing = F], delta),
             "advance_turn", delta)

ToggleDeadFailing(index, F) ==
    /\ lastCall.raised # "RefreshError"
    /\ Apply(toggle_dead([Engine EXCEPT !.failing = F], index),
             "toggle_dead", index)

\* the program up to the first notification that an observer makes fail
NextFail ==
    \/ \E v \in ViewIds : lastCall.raised # "RefreshError" /\ NewTurnTracker(v)
    \/ \E delta \in Deltas, F \in SUBSET ViewIds : AdvanceTurnFailing(delta, F)
    \/ \E index \in 0..(Len(characters) - 1), F \in SUBSET ViewIds :
          ToggleDeadFailing(index, F)

SpecFail == Init /\ [][NextFail]_vars

\* the engine built on what a provider hands over: run_app passes the list
\* get_characters sorted; another caller of TrackerState(characters) passes
\* its list in the order it was entered. `provided` keeps who provided the
\* list and the entries as entered.
Providers == {"get_characters", "caller"}

InitCreate ==
    \E inits \in SortInputs, by \in Providers :
        LET st == TrackerState(IF by = "get_characters"
                               THEN get_characters(inits)
                               ELSE Entered(inits))
        IN /\ characters = st.characters
           /\ dead_flags = st.dead_flags
           /\ turn_index = st.turn_index
           /\ subscribers = st.subscribers
           /\ views = st.views
           /\ refreshLog = st.log
           /\ notifyCount = st.notifies
           /\ lastCall = [op |-> "__init__", arg |-> 0, raised |-> "none",
                          from |-> 0, again |-> FALSE,
                          failing |-> {}, examined |-> 0, trace |-> <<>>,
                          reverts |-> FALSE, origin |-> 0]
           /\ provided = [by |-> by, entries |-> Entered(inits)]

NextCreate ==
    \/ \E v \in ViewIds : NewTurnTracker(v)
    \/ \E delta \in Deltas : AdvanceTurn(delta)

SpecCreate == InitCreate /\ [][NextCreate]_vars

\* ---- vocabulary of the properties ----
N == Len(characters)
Completed(op) == lastCall.op = op /\ lastCall.raised = "none"
SomeAlive == \E k \in 1..Len(dead_flags) : ~dead_flags[k]
CursorAlive == turn_index + 1 \in 1..Len(dead_flags) /\ ~dead_flags[turn_index + 1]
CursorOk == SomeAlive => CursorAlive
Min(S) == CHOOSE x \in S : \A y \in S : x <= y
\* the refresh() calls of one notification cycle over the registry, each view
\* reading the state given
OneCycle(subs, turn, dead) ==
    [k \in 1..Len(subs) |-> [view |-> subs[k], turn_index |-> turn, dead_flags |-> dead]]

\* C1: a step of advance_turn(step), step in {+1, -1}, on a roster of length
\* n >= 1 sets the cursor to (cursor + step*i) mod n for the smallest i in 1..n
\* whose character is not dead, leaves it unchanged when there is no such i,
\* and so ends on a living character whenever one exists.
C1_AdvanceStep ==
    (lastCall'.op = "advance_turn" /\ N >= 1) =>
        LET step == lastCall'.arg
            Cand(i) == (((turn_index + step * i) % N) + N) % N
            Living == {i \in 1..N : ~dead_flags[Cand(i) + 1]}
        IN /\ lastCall'.raised = "none"
           /\ IF Living # {}
              THEN turn_index' = Cand(Min(Living))
              ELSE turn_index' = turn_index
           /\ CursorOk'
C1_Advance == [][C1_AdvanceStep]_vars

\* a backward advance from index 0 wrapped to index 1 over the dead index 2
C1_Witness ==
    /\ Completed("advance_turn") /\ lastCall.arg = -1
    /\ N = 3 /\ lastCall.from = 0 /\ turn_index = 1
    /\ dead_flags = <<FALSE, FALSE, TRUE>>

\* C2 (as stated): after any completed advance or toggle_dead on a valid
\* index, if at least one character is alive the cursor references a living
\* character.
C2_Original ==
    (Completed("advance_turn")
       \/ (Completed("toggle_dead") /\ lastCall.arg \in 0..(N - 1)))
    => CursorOk

\* C2 (amended): after any completed advance the cursor references a living
\* character if one exists; after a completed toggle_dead(index) on a valid
\* index the same holds provided the cursor referenced a living character
\* before the call or index is the cursor.
C2_AmendedStep ==
    (\/ (lastCall'.op = "advance_turn" /\ lastCall'.raised = "none")
     \/ (/\ lastCall'.op = "toggle_dead" /\ lastCall'.raised = "none"
         /\ lastCall'.arg \in 0..(N - 1)
         /\ (CursorAlive \/ lastCall'.arg = turn_index)))
    => CursorOk'
C2_Amended == [][C2_AmendedStep]_vars

\* the cursor's character was killed while another one was already dead, and
\* the cursor went to the only living character
C2_Witness ==
    /\ Completed("toggle_dead") /\ lastCall.arg = lastCall.from
    /\ N = 3 /\ lastCall.from = 1 /\ turn_index = 0
    /\ dead_flags = <<FALSE, TRUE, TRUE>>

\* C3: toggle_dead(index) with index = cursor on a living character makes the
\* character dead and moves the cursor to the next living character forward
\* (wrapping), or leaves it when nobody is alive any more, with exactly one
\* notification cycle.
C3_ToggleCurrentStep ==
    (/\ lastCall'.op = "toggle_dead"
     /\ lastCall'.arg = turn_index
     /\ CursorAlive) =>
        LET p == turn_index + 1
            Living == {i \in 1..N : ~dead_flags'[((turn_index + i) % N) + 1]}
        IN /\ lastCall'.raised = "none"
           /\ dead_flags' = [dead_flags EXCEPT ![p] = TRUE]
           /\ IF Living # {}
              THEN turn_index' = (turn_index + Min(Living)) % N
              ELSE turn_index' = turn_index
           /\ notifyCount' = 1
           /\ refreshLog' = OneCycle(subscribers, turn_index', dead_flags')
C3_ToggleCurrent == [][C3_ToggleCurrentStep]_vars

\* the last roster entry was current and was killed with two views attached:
\* the cursor wrapped to index 0 and each view was refreshed once
C3_Witness ==
    /\ Completed("toggle_dead") /\ lastCall.arg = lastCall.from
    /\ N = 3 /\ lastCall.from = 2 /\ turn_index = 0
    /\ dead_flags[3] /\ ~dead_flags[1]
    /\ Len(subscribers) = 2 /\ Len(refreshLog) = 2 /\ notifyCount = 1

\* C4: toggle_dead(index) with index outside 0 <= index < n fails with an
\* index-out-of-range error, leaves dead flags, cursor and registry unchanged,
\* and refreshes no observer.
C4_OutOfRangeStep ==
    (lastCall'.op = "toggle_dead" /\ lastCall'.arg \notin 0..(N - 1)) =>
        /\ lastCall'.raised = "IndexError"
        /\ dead_flags' = dead_flags
        /\ turn_index' = turn_index
        /\ subscribers' = subscribers
        /\ refreshLog' = <<>>
C4_OutOfRange == [][C4_OutOfRangeStep]_vars

\* C5: every completed advance_turn (also one that leaves the cursor where it
\* was) and every completed toggle_dead runs one notification cycle: one
\* refresh() per registry entry, in subscription order, each reading the
\* state after the change.
C5_FanOut ==
    (Completed("advance_turn") \/ Completed("toggle_dead")) =>
        /\ notifyCount = 1
        /\ refreshLog = OneCycle(subscribers, turn_index, dead_flags)

\* an advance that found everybody dead still refreshed both views, in order
C5_Witness ==
    /\ Completed("advance_turn") /\ N = 2
    /\ ~SomeAlive /\ turn_index = lastCall.from
    /\ subscribers = <<2, 1>>
    /\ Len(refreshLog) = 2 /\ refreshLog[1].view = 2 /\ refreshLog[2].view = 1

\* C6: after every completed mutation the cards of every subscribed view
\* show the engine's current roster, dead flags and cursor, so two subscribed
\* views show the same dead set and the same current character.
ShowsCurrent(v) ==
    /\ views[v].rendered
    /\ Len(views[v].cards) = N
    /\ \A k \in 1..N :
          /\ views[v].cards[k].name = characters[k][1]
          /\ views[v].cards[k].index = k - 1
          /\ views[v].cards[k].dead_style = dead_flags[k]
          /\ views[v].cards[k].turn_label = (k - 1 = turn_index /\ ~dead_flags[k])
C6_ViewsConsistent ==
    (Completed("advance_turn") \/ Completed("toggle_dead")) =>
        /\ \A k \in 1..Len(subscribers) : ShowsCurrent(subscribers[k])
        /\ \A j, k \in 1..Len(subscribers) :
              views[subscribers[j]].cards = views[subscribers[k]].cards

\* two views, a toggle made through one card: both show the dead character
\* and the same current one
C6_Witness ==
    /\ Completed("toggle_dead") /\ N = 3
    /\ subscribers = <<1, 2>>
    /\ dead_flags = <<FALSE, TRUE, FALSE>> /\ turn_index = 2
    /\ views[1].cards[2].dead_style /\ views[2].cards[2].dead_style
    /\ views[1].cards[3].turn_label /\ views[2].cards[3].turn_label

\* C7: toggle_dead(index) on a valid index leaves the cursor unchanged unless
\* index is the cursor and the character has just become dead.
C7_ToggleKeepsCursorStep ==
    (/\ lastCall'.op = "toggle_dead"
     /\ lastCall'.arg \in 0..(N - 1)
     /\ ~(lastCall'.arg = turn_index /\ dead_flags'[lastCall'.arg + 1]))
    => (lastCall'.raised = "none" /\ turn_index' = turn_index)
C7_ToggleKeepsCursor == [][C7_ToggleKeepsCursorStep]_vars

\* the dead character under the cursor was revived while another character
\* was alive, and the cursor stayed
C7_Witness ==
    /\ Completed("toggle_dead") /\ N = 3
    /\ lastCall.arg = 1 /\ lastCall.from = 1 /\ turn_index = 1
    /\ dead_flags = <<FALSE, FALSE, TRUE>>

\* C8 (as stated): in every reachable state 0 <= cursor < roster length.
C8_Original == 0 <= turn_index /\ turn_index < N

\* C8 (amended): the cursor starts at 0 and in every reachable state
\* 0 <= cursor < roster length when the roster is not empty; on the empty
\* roster, which create accepts, the cursor is 0.
C8_CursorInRange ==
    /\ 0 <= turn_index
    /\ N > 0 => turn_index < N
    /\ N = 0 => turn_index = 0
    /\ lastCall.op = "__init__" => turn_index = 0

\* a backward advance from index 0 reached the last index
C8_Witness ==
    /\ Completed("advance_turn") /\ lastCall.arg = -1
    /\ N = 3 /\ lastCall.from = 0 /\ turn_index = 2

\* C9: the dead flags start all false; a toggle_dead on a valid index flips
\* the flag at that index and no other; advance_turn, subscribe and the view
\* constructor change no flag; no call changes the roster.
C9_FlagsStep ==
    /\ characters' = characters
    /\ lastCall'.op # "toggle_dead" => dead_flags' = dead_flags
    /\ (lastCall'.op = "toggle_dead" /\ lastCall'.arg \in 0..(N - 1)) =>
          /\ Len(dead_flags') = Len(dead_flags)
          /\ \A k \in 1..N :
                dead_flags'[k] = (IF k = lastCall'.arg + 1 THEN ~dead_flags[k]
                                  ELSE dead_flags[k])
C9_Flags ==
    /\ \A k \in 1..Len(dead_flags) : ~dead_flags[k]
    /\ [][C9_FlagsStep]_vars

\* a dead character was toggled back to alive while its neighbour stayed dead
C9_Witness ==
    /\ Completed("toggle_dead") /\ N = 3
    /\ lastCall.arg = 2 /\ turn_index = 0
    /\ dead_flags = <<FALSE, TRUE, FALSE>>
    /\ Len(characters) = 3

\* C10: on the empty roster advance_turn in either direction raises nothing,
\* leaves the cursor, and still refreshes every subscribed observer.
C10_EmptyRoster ==
    (lastCall.op = "advance_turn" /\ N = 0) =>
        /\ lastCall.raised = "none"
        /\ turn_index = lastCall.from
        /\ notifyCount = 1
        /\ refreshLog = OneCycle(subscribers, turn_index, dead_flags)

\* a backward advance on the empty roster with two views attached
C10_Witness ==
    /\ lastCall.op = "advance_turn" /\ lastCall.arg = -1 /\ N = 0
    /\ lastCall.raised = "none"
    /\ Len(subscribers) = 2 /\ Len(refreshLog) = 2
    /\ views[1].rendered /\ views[2].rendered

\* r is e sorted by initiative descending, equal initiatives in entered order
RosterPerms(n) ==
    {p \in [1..n -> 1..n] : \A i, j \in 1..n : i # j => p[i] # p[j]}
IsStableSortDesc(r, e) ==
    /\ Len(r) = Len(e)
    /\ \E p \in RosterPerms(Len(e)) :
          /\ \A k \in 1..Len(e) : r[k] = e[p[k]]
          /\ \A j, k \in 1..Len(e) :
                j < k => \/ r[j][2] > r[k][2]
                         \/ (r[j][2] = r[k][2] /\ p[j] < p[k])

Occurrences(s, x) == Cardinality({k \in 1..Len(s) : s[k] = x})
Refreshes(log, v) == Cardinality({k \in 1..Len(log) : log[k].view = v})

\* C12: subscribe(observer) appends the observer at the end of the registry
\* even when it is already listed, refreshes nothing and leaves roster, dead
\* flags and cursor alone; no call removes or reorders registry entries; an
\* observer listed twice is refreshed twice by a notification.
C12_SubscribeStep ==
    /\ lastCall'.op = "subscribe" =>
          /\ subscribers' = Append(subscribers, lastCall'.arg)
          /\ refreshLog' = <<>> /\ notifyCount' = 0
          /\ views' = views
          /\ characters' = characters
          /\ dead_flags' = dead_flags
          /\ turn_index' = turn_index
    /\ Len(subscribers') >= Len(subscribers)
    /\ SubSeq(subscribers', 1, Len(subscribers)) = subscribers
    /\ (lastCall'.op \in {"advance_turn", "toggle_dead"} /\ lastCall'.raised = "none") =>
          \A v \in ViewIds : Refreshes(refreshLog', v) = Occurrences(subscribers', v)
C12_Subscribe == [][C12_SubscribeStep]_vars

\* view 1 was subscribed twice and an advance refreshed it twice
C12_Witness ==
    /\ subscribers = <<1, 1>>
    /\ Completed("advance_turn") /\ N = 2 /\ turn_index = 1
    /\ Len(refreshLog) = 2 /\ refreshLog[1].view = 1 /\ refreshLog[2].view = 1

\* C13: refresh() of a view changes neither roster, dead flags, cursor nor
\* registry, and a refresh() that directly follows a refresh() of the same
\* view leaves the view's cards as they were.
C13_RefreshStep ==
    lastCall'.op = "refresh" =>
        /\ lastCall'.raised = "none"
        /\ characters' = characters
        /\ dead_flags' = dead_flags
        /\ turn_index' = turn_index
        /\ subscribers' = subscribers
        /\ lastCall'.again => views'[lastCall'.arg] = views[lastCall'.arg]
C13_Refresh == [][C13_RefreshStep]_vars

\* window 2 was refreshed twice in a row while showing a dead card and the
\* current card
C13_Witness ==
    /\ lastCall.op = "refresh" /\ lastCall.arg = 2 /\ lastCall.again
    /\ N = 3 /\ dead_flags = <<TRUE, FALSE, FALSE>> /\ turn_index = 1
    /\ Len(views[2].cards) = 3
    /\ views[2].cards[1].dead_style /\ views[2].cards[2].turn_label

\* C14: when the refresh() of an observer raises during the notification of
\* advance_turn or toggle_dead, the call raises, the observers before it in
\* subscription order have been refreshed once and none after it (no retry),
\* and the flag flip and cursor move made before the notification stay.
FirstFailing(subs, F) == Min({k \in 1..Len(subs) : subs[k] \in F})
C14_FailingStep ==
    (lastCall'.op \in {"advance_turn", "toggle_dead"}
       /\ \E k \in 1..Len(subscribers) : subscribers[k] \in lastCall'.failing) =>
        LET first == FirstFailing(subscribers, lastCall'.failing)
            done == IF lastCall'.op = "advance_turn"
                    THEN advance_turn(Engine, lastCall'.arg)
                    ELSE toggle_dead(Engine, lastCall'.arg)
        IN /\ lastCall'.raised = "RefreshError"
           /\ notifyCount' = 1
           /\ refreshLog' = SubSeq(OneCycle(subscribers, turn_index', dead_flags'),
                                   1, first - 1)
           /\ \A k \in first..Len(subscribers) :
                 (\A j \in 1..(first - 1) : subscribers[j] # subscribers[k])
                     => views'[subscribers[k]] = views[subscribers[k]]
           /\ dead_flags' = done.dead_flags
           /\ turn_index' = done.turn_index
           /\ subscribers' = subscribers
C14_Failing == [][C14_FailingStep]_vars

\* the current character was killed through a card while window 2 raised:
\* the flag is set and the cursor moved, window 1 shows it, window 2 does not
C14_Witness ==
    /\ lastCall.op = "toggle_dead" /\ lastCall.raised = "RefreshError"
    /\ lastCall.failing = {2} /\ subscribers = <<1, 2>>
    /\ N = 3 /\ lastCall.arg = 0 /\ lastCall.from = 0 /\ turn_index = 1
    /\ dead_flags = <<TRUE, FALSE, FALSE>>
    /\ Len(refreshLog) = 1 /\ refreshLog[1].view = 1
    /\ views[1].cards[1].dead_style /\ ~views[2].cards[1].dead_style

\* C15: a call of advance_turn examines at most n candidates; a call of
\* toggle_dead enters advance_turn at most once; neither mutator is entered
\* again during its own call, so a call is one of the chains
\* advance_turn -> notify_all, toggle_dead -> notify_all,
\* toggle_dead -> advance_turn -> notify_all.
C15_Bounded ==
    /\ lastCall.examined <= N
    /\ lastCall.op = "advance_turn" =>
          lastCall.trace = <<"advance_turn", "notify_all">>
    /\ lastCall.op = "toggle_dead" =>
          lastCall.trace \in {<<"toggle_dead">>,
                              <<"toggle_dead", "notify_all">>,
                              <<"toggle_dead", "advance_turn", "notify_all">>}
    /\ (lastCall.op = "toggle_dead" /\ lastCall.raised = "none") =>
          Len(lastCall.trace) >= 2

\* the last living character, the current one, was killed: the nested
\* advance examined all three candidates and found none
C15_Witness ==
    /\ Completed("toggle_dead") /\ N = 3
    /\ lastCall.arg = 1 /\ lastCall.from = 1 /\ turn_index = 1
    /\ ~SomeAlive
    /\ lastCall.examined = 3
    /\ lastCall.trace = <<"toggle_dead", "advance_turn", "notify_all">>

\* ---- consecutive calls of advance_turn(delta), nothing in between: the
\* cursors after the 1st .. k-th call, from the engine state st ----
RECURSIVE Rotation(_, _, _)
Rotation(st, delta, k) ==
    IF k = 0 THEN <<>>
    ELSE LET st1 == advance_turn(st, delta)
         IN <<st1.turn_index>> \o Rotation(st1, delta, k - 1)

Living == {i \in 0..(N - 1) : ~dead_flags[i + 1]}

\* C16: from a state with k >= 1 living characters and the cursor on a living
\* one, k consecutive advance_turn(1) calls put the cursor on every living
\* character exactly once, never on a dead one, and end on the starting
\* index; the same for k consecutive advance_turn(-1) calls.
C16_Fair ==
    (SomeAlive /\ CursorAlive) =>
        \A delta \in Deltas :
            LET k == Cardinality(Living)
                cursors == Rotation(Engine, delta, k)
            IN /\ {cursors[j] : j \in 1..k} = Living
               /\ \A i, j \in 1..k : cursors[i] = cursors[j] => i = j
               /\ cursors[k] = turn_index

\* after a call of advance_turn, three characters, the middle one dead, the
\* cursor on the last: two calls forward visit 0 then 2, two calls backward
\* visit 0 then 2 as well
C16_Witness ==
    /\ Completed("advance_turn") /\ N = 3
    /\ dead_flags = <<FALSE, TRUE, FALSE>> /\ turn_index = 2
    /\ Rotation(Engine, 1, 2) = <<0, 2>>
    /\ Rotation(Engine, -1, 2) = <<0, 2>>

\* C17: a completed advance_turn(d) that started with the cursor on a living
\* character, followed directly by advance_turn(-d), leaves the cursor where
\* it was before the first of the two calls (d = 1: Forward then Backward;
\* d = -1: Backward then Forward).
C17_RoundTripStep ==
    ( /\ Completed("advance_turn")
      /\ lastCall.from + 1 \in 1..N /\ ~dead_flags[lastCall.from + 1]
      /\ lastCall'.op = "advance_turn"
      /\ lastCall'.arg = 0 - lastCall.arg )
    => /\ lastCall'.raised = "none"
       /\ turn_index' = lastCall.from
       /\ dead_flags' = dead_flags

C17_RoundTrip == [][C17_RoundTripStep]_vars

\* Forward from 0 over the dead middle character to 2, then Backward: the
\* cursor is on 0 again
C17_Witness ==
    /\ Completed("advance_turn") /\ lastCall.arg = -1 /\ lastCall.reverts
    /\ N = 3 /\ dead_flags = <<FALSE, TRUE, FALSE>>
    /\ lastCall.origin = 0 /\ lastCall.from = 2 /\ turn_index = 0

\* the cards of view v that show the "CURRENT TURN" label
CurrentCards(v) ==
    {k \in 1..Len(views[v].cards) : views[v].cards[k].turn_label}

\* C18: in the cards a view has rendered at most one shows the current-turn
\* label, a card drawn dead never shows it, and when the character under the
\* cursor is dead no card shows it.
C18_Rendering ==
    \A v \in ViewIds :
        views[v].rendered =>
            /\ Cardinality(CurrentCards(v)) <= 1
            /\ \A k \in 1..Len(views[v].cards) :
                   views[v].cards[k].dead_style => ~views[v].cards[k].turn_label
            /\ ~CursorAlive => CurrentCards(v) = {}

\* everyone was killed and the first character revived: the cursor stays on
\* the dead third character, and the view, redrawn, marks no card at all
C18_Witness ==
    /\ Completed("toggle_dead") /\ lastCall.arg = 0 /\ N = 3
    /\ dead_flags = <<FALSE, TRUE, TRUE>> /\ turn_index = 2
    /\ views[1].rendered /\ Len(views[1].cards) = 3
    /\ ~views[1].cards[1].dead_style
    /\ views[1].cards[3].dead_style
    /\ CurrentCards(1) = {}

====
